---- MODULE Spec2Model ----
(***************************************************************************)
(* Model of the tokenizer, recursive-descent parser and tree-walking       *)
(* interpreter of "Others/Custom Compiler/Interpreter Implementation/      *)
(* main.js" and of its entry point executeCode.                            *)
(*                                                                         *)
(* Source text is a sequence of one-character strings.  A JavaScript       *)
(* number is an IEEE 754 double, a record [t, nan, inf, neg, m, e]: NaN,   *)
(* a signed infinity, a signed zero, or the magnitude m * 2^e, m being an  *)
(* odd natural number below 2^53 held as a sequence of limbs; every        *)
(* arithmetic result is rounded to the nearest double, ties to even.       *)
(* A thrown Error is a record with its message, the values interpolated   *)
(* into the message (carries) and the function whose throw statement       *)
(* raised it (thrownBy).                                                   *)
(***************************************************************************)
EXTENDS Integers, Sequences, FiniteSets, TLC

VARIABLES sourceCode, pc, parser, interpreter, statements, ast, idx, result,
          raised, ret, history, lexer, emitted, calls, lexError

vars == <<sourceCode, pc, parser, interpreter, statements, ast, idx, result,
          raised, ret, history, lexer, emitted, calls, lexError>>

\* The earlier calls of executeCode (history) and the state of a Lexer that
\* is driven on its own: the token values returned so far, the number of
\* getNextToken calls and the error of the last call.
driver == <<history, lexer, emitted, calls, lexError>>

----------------------------------------------------------------------------
(* Bounds of the explored inputs *)

MaxLen == 4

MaxArithLen == 7

\* Calls of executeCode in one run of the multi-call specification
MaxCalls == 3

\* Length of the texts given to a Lexer driven on its own, and the number
\* of getNextToken calls made beyond that length
MaxLexLen == 4

MaxExtraCalls == 2

\* Length of the texts explored under the fair specification
MaxFairLen == 4

----------------------------------------------------------------------------
(* JavaScript values *)

undefined == [t |-> "undefined"]

null == [t |-> "null"]

Char(c) == [t |-> "string", s |-> c]

\* JavaScript truthiness of the values currentChar takes: undefined, null
\* and the empty string are falsy, every one-character string is truthy.
Truthy(v) == v.t = "string" /\ v.s # ""

\* The white space no escape of a TLA+ string names; the character itself
\* stands between the quotes: the vertical tab (U+000B), the no-break space
\* (U+00A0), the Ogham space mark (U+1680) and the zero width no-break
\* space (U+FEFF)
VerticalTab == ""

NoBreakSpace == " "

OghamSpaceMark == " "

ZeroWidthNoBreakSpace == "﻿"

\* The characters of /\s/ (lines 17 and 42) that a string of this module
\* can hold.  /\s/ also matches U+2000 to U+200A, U+2028, U+2029, U+202F,
\* U+205F and U+3000; no string here can be written with them, so no text
\* of the model holds them.
Whitespace ==
    {" ", "\t", "\n", "\r", "\f", VerticalTab,
     NoBreakSpace, OghamSpaceMark, ZeroWidthNoBreakSpace}

Digits == {"0", "1", "2", "3", "4", "5", "6", "7", "8", "9"}

Letters ==
    {"a", "b", "c", "d", "e", "f", "g", "h", "i", "j", "k", "l", "m",
     "n", "o", "p", "q", "r", "s", "t", "u", "v", "w", "x", "y", "z",
     "A", "B", "C", "D", "E", "F", "G", "H", "I", "J", "K", "L", "M",
     "N", "O", "P", "Q", "R", "S", "T", "U", "V", "W", "X", "Y", "Z"}

IdentifierChars == Letters \cup Digits \cup {"_"}

DigitValue(c) ==
    CASE c = "0" -> 0 [] c = "1" -> 1 [] c = "2" -> 2 [] c = "3" -> 3
      [] c = "4" -> 4 [] c = "5" -> 5 [] c = "6" -> 6 [] c = "7" -> 7
      [] c = "8" -> 8 [] c = "9" -> 9

\* Body applied to the value of e, which is computed once
Bind(e, Body(_)) == CHOOSE v \in {Body(x) : x \in {e}} : TRUE

\* The element of a one-element set.  Only({F(x) : x \in {e}}) is F applied
\* to the value of e, which is computed once.
Only(S) == CHOOSE v \in S : TRUE

Highest(S) == CHOOSE i \in S : \A j \in S : j <= i

Lowest(S) == CHOOSE i \in S : \A j \in S : i <= j

----------------------------------------------------------------------------
(* Natural numbers of any size: the sequence of their limbs in base Base,  *)
(* least significant first, without a zero limb at the high end.  The      *)
(* sums, differences, products and quotients walk the limbs by halving the *)
(* range low..high, which keeps the depth of the recursion at the          *)
(* logarithm of the length; the carry goes from the lower half into the    *)
(* upper half (from the upper into the lower when dividing).               *)

Base == 2^15

LimbBits == 15

\* a without the zero limbs at its high end
BNorm(a) ==
    Only({IF x = <<>> \/ x[Len(x)] # 0 THEN x
          ELSE SubSeq(x, 1, Highest({0} \cup {i \in 1..Len(x) : x[i] # 0}))
          : x \in {a}})

\* The limbs of an integer 0 <= n < 2^31
BFromInt(n) == BNorm(<<n % Base, (n \div Base) % Base, n \div (Base * Base)>>)

BLimb(a, i) == IF i <= Len(a) THEN a[i] ELSE 0

\* -1, 0 or 1 as a < b, a = b or a > b
BCmp(a, b) ==
    Only({IF Len(x) # Len(y) THEN (IF Len(x) < Len(y) THEN -1 ELSE 1)
          ELSE Only({IF top = 0 THEN 0 ELSE IF x[top] < y[top] THEN -1 ELSE 1
                     : top \in {Highest({0} \cup {i \in 1..Len(x) :
                                                      x[i] # y[i]})}})
          : x \in {a}, y \in {b}})

RECURSIVE BAddRange(_, _, _, _, _)
BAddRange(a, b, low, high, carry) ==
    IF low > high THEN [limbs |-> <<>>, carry |-> carry]
    ELSE IF low = high
    THEN Only({[limbs |-> <<s % Base>>, carry |-> s \div Base]
               : s \in {BLimb(a, low) + BLimb(b, low) + carry}})
    ELSE Only({Only({Only({
             [limbs |-> lower.limbs \o upper.limbs, carry |-> upper.carry]
             : upper \in {BAddRange(a, b, mid + 1, high, lower.carry)}})
             : lower \in {BAddRange(a, b, low, mid, carry)}})
             : mid \in {(low + high) \div 2}})

\* a + b
BAdd(a, b) ==
    Only({IF sum.carry = 0 THEN sum.limbs ELSE Append(sum.limbs, sum.carry)
          : sum \in {Only({BAddRange(x, y, 1,
                                     IF Len(x) < Len(y) THEN Len(y) ELSE Len(x),
                                     0)
                           : x \in {a}, y \in {b}})}})

RECURSIVE BSubRange(_, _, _, _, _)
BSubRange(a, b, low, high, borrow) ==
    IF low > high THEN [limbs |-> <<>>, carry |-> borrow]
    ELSE IF low = high
    THEN Only({[limbs |-> <<IF d < 0 THEN d + Base ELSE d>>,
                carry |-> IF d < 0 THEN 1 ELSE 0]
               : d \in {a[low] - BLimb(b, low) - borrow}})
    ELSE Only({Only({Only({
             [limbs |-> lower.limbs \o upper.limbs, carry |-> upper.carry]
             : upper \in {BSubRange(a, b, mid + 1, high, lower.carry)}})
             : lower \in {BSubRange(a, b, low, mid, borrow)}})
             : mid \in {(low + high) \div 2}})

\* a - b for a >= b
BSub(a, b) ==
    BNorm(Only({BSubRange(x, y, 1, Len(x), 0) : x \in {a}, y \in {b}}).limbs)

RECURSIVE BMulSmallRange(_, _, _, _, _)
BMulSmallRange(a, k, low, high, carry) ==
    IF low > high THEN [limbs |-> <<>>, carry |-> carry]
    ELSE IF low = high
    THEN Only({[limbs |-> <<s % Base>>, carry |-> s \div Base]
               : s \in {a[low] * k + carry}})
    ELSE Only({Only({Only({
             [limbs |-> lower.limbs \o upper.limbs, carry |-> upper.carry]
             : upper \in {BMulSmallRange(a, k, mid + 1, high, lower.carry)}})
             : lower \in {BMulSmallRange(a, k, low, mid, carry)}})
             : mid \in {(low + high) \div 2}})

\* a * k for 0 <= k < Base
BMulSmall(a, k) ==
    Only({IF n = 0 THEN <<>>
          ELSE Only({IF p.carry = 0 THEN p.limbs ELSE Append(p.limbs, p.carry)
                     : p \in {BMulSmallRange(x, n, 1, Len(x), 0)}})
          : x \in {a}, n \in {k}})

\* a * Base^n
BShiftLimbs(a, n) ==
    Only({IF x = <<>> THEN <<>> ELSE [i \in 1..n |-> 0] \o x : x \in {a}})

\* a times the limbs low..high of b
RECURSIVE BMulRange(_, _, _, _)
BMulRange(a, b, low, high) ==
    IF low > high THEN <<>>
    ELSE IF low = high THEN BMulSmall(a, b[low])
    ELSE Only({Only({Only({
             BAdd(lower, upper)
             : upper \in {BShiftLimbs(BMulRange(a, b, mid + 1, high),
                                      mid - low + 1)}})
             : lower \in {BMulRange(a, b, low, mid)}})
             : mid \in {(low + high) \div 2}})

\* a * b
BMul(a, b) == Only({BMulRange(x, y, 1, Len(y)) : x \in {a}, y \in {b}})

RECURSIVE BDivSmallRange(_, _, _, _, _)
BDivSmallRange(a, k, low, high, rem) ==
    IF low > high THEN [quot |-> <<>>, rem |-> rem]
    ELSE IF low = high
    THEN Only({[quot |-> <<n \div k>>, rem |-> n % k]
               : n \in {rem * Base + a[low]}})
    ELSE Only({Only({Only({
             [quot |-> lower.quot \o upper.quot, rem |-> lower.rem]
             : lower \in {BDivSmallRange(a, k, low, mid, upper.rem)}})
             : upper \in {BDivSmallRange(a, k, mid + 1, high, rem)}})
             : mid \in {(low + high) \div 2}})

\* Quotient and remainder of a by 0 < k < Base
BDivSmall(a, k) ==
    Only({[quot |-> BNorm(d.quot), rem |-> d.rem]
          : d \in {Only({BDivSmallRange(x, n, 1, Len(x), 0)
                         : x \in {a}, n \in {k}})}})

\* The number of bits of a limb and of a natural number
LimbLen(x) == Cardinality({n \in 0..(LimbBits - 1) : 2^n <= x})

BBitLen(a) ==
    Only({IF x = <<>> THEN 0
          ELSE LimbBits * (Len(x) - 1) + LimbLen(x[Len(x)])
          : x \in {a}})

BOdd(a) == BLimb(a, 1) % 2 = 1

\* a * 2^s
BShl(a, s) == BShiftLimbs(BMulSmall(a, 2^(s % LimbBits)), s \div LimbBits)

\* floor(a / 2^s), and whether a one bit was shifted out
BShr(a, s) ==
    Only({IF n \div LimbBits >= Len(x)
          THEN [quot |-> <<>>, inexact |-> x # <<>>]
          ELSE Only({[quot |-> d.quot,
                      inexact |-> d.rem # 0
                                    \/ \E i \in 1..(n \div LimbBits) : x[i] # 0]
                     : d \in {BDivSmall(SubSeq(x, n \div LimbBits + 1, Len(x)),
                                        2^(n % LimbBits))}})
          : x \in {a}, n \in {s}})

\* q raised, and left = r - b * q lowered, until left < b
RECURSIVE BDigitFrom(_, _, _)
BDigitFrom(q, left, b) ==
    IF BCmp(left, b) < 0 THEN [quot |-> <<q>>, rem |-> left]
    ELSE Only({BDigitFrom(q + 1, less, b) : less \in {BSub(left, b)}})

\* The quotient digit and the remainder of r by b, for r < b * Base and a
\* divisor of two limbs or more whose high limb is at least Base / 2: the
\* two high limbs of r divided by the high limb of b plus one give a digit
\* that is at most three too small
BDigit(r, b) ==
    Only({BDigitFrom(q, BSub(r, BMulSmall(b, q)), b)
          : q \in {(BLimb(r, Len(b) + 1) * Base + BLimb(r, Len(b)))
                        \div (b[Len(b)] + 1)}})

\* Long division of the limbs low..high of a by b, rem being what is left
\* of the limbs above high
RECURSIVE BDivModRange(_, _, _, _, _)
BDivModRange(a, b, low, high, rem) ==
    IF low > high THEN [quot |-> <<>>, rem |-> rem]
    ELSE IF low = high
    THEN Only({BDigit(r, b) : r \in {BNorm(<<a[low]>> \o rem)}})
    ELSE Only({Only({Only({
             [quot |-> lower.quot \o upper.quot, rem |-> lower.rem]
             : lower \in {BDivModRange(a, b, low, mid, upper.rem)}})
             : upper \in {BDivModRange(a, b, mid + 1, high, rem)}})
             : mid \in {(low + high) \div 2}})

\* Quotient and remainder of a by b > 0.  A divisor of several limbs is
\* first scaled, together with a, by the power of two that fills its high
\* limb; the quotient is the same and the remainder is scaled back.
BDivMod(a, b) ==
    Only({IF Len(y) = 1
          THEN Only({[quot |-> d.quot, rem |-> BFromInt(d.rem)]
                     : d \in {BDivSmall(x, y[1])}})
          ELSE Only({Only({[quot |-> BNorm(d.quot),
                            rem |-> BShr(d.rem, fill).quot]
                           : d \in {Only({BDivModRange(p, q, 1, Len(p), <<>>)
                                          : p \in {BShl(x, fill)},
                                            q \in {BShl(y, fill)}})}})
                     : fill \in {LimbBits - LimbLen(y[Len(y)])}})
          : x \in {a}, y \in {b}})

\* The number of zero bits at the low end of a > 0
BTrailingZeros(a) ==
    Only({LimbBits * (limb - 1)
             + Cardinality({n \in 1..LimbBits : a[limb] % 2^n = 0})
          : limb \in {Lowest({i \in 1..Len(a) : a[i] # 0})}})

----------------------------------------------------------------------------
(* JavaScript numbers: IEEE 754 doubles.  A finite number other than zero  *)
(* is m * 2^e with m odd and below 2^53, e >= MinExponent and              *)
(* m * 2^e < 2^MaxBits; zero has m = 0 and e = 0.                          *)

MantissaBits == 53

MinExponent == -1074

MaxBits == 1024

NaN ==
    [t |-> "number", nan |-> TRUE, inf |-> FALSE, neg |-> FALSE,
     m |-> <<>>, e |-> 0]

Infinity(neg) ==
    [t |-> "number", nan |-> FALSE, inf |-> TRUE, neg |-> neg,
     m |-> <<>>, e |-> 0]

Zero(neg) ==
    [t |-> "number", nan |-> FALSE, inf |-> FALSE, neg |-> neg,
     m |-> <<>>, e |-> 0]

Finite(neg, m, e) ==
    [t |-> "number", nan |-> FALSE, inf |-> FALSE, neg |-> neg,
     m |-> m, e |-> e]

IsInf(v) == v.inf

IsZero(v) == ~v.nan /\ ~v.inf /\ v.m = <<>>

Negate(v) == IF v.nan THEN v ELSE [v EXCEPT !.neg = ~v.neg]

\* The exponent above the highest bit of a finite number other than zero
Top(v) == v.e + BBitLen(v.m)

\* The double m * 2^e of a rounded mantissa m <= 2^53 at an exponent
\* e >= MinExponent: 2^MaxBits and more is an overflow to Infinity, and the
\* zero bits at the low end of m go into the exponent
Packed(neg, m, e) ==
    Only({IF x = <<>> THEN Zero(neg)
          ELSE IF BBitLen(x) + e > MaxBits THEN Infinity(neg)
          ELSE Only({Finite(neg, IF z = 0 THEN x ELSE BShr(x, z).quot, e + z)
                     : z \in {BTrailingZeros(x)}})
          : x \in {m}})

\* kept holds the mantissa and, as its lowest bit, the first bit cut off;
\* inexact tells whether a one bit lies below that.  Rounds to nearest,
\* a tie to the even mantissa.
RoundedHalf(neg, kept, inexact, e) ==
    Only({IF h.rem = 1 /\ (inexact \/ BOdd(h.quot))
          THEN Packed(neg, BAdd(h.quot, <<1>>), e)
          ELSE Packed(neg, h.quot, e)
          : h \in {BDivSmall(kept, 2)}})

\* The double nearest to n * 2^e, or to a value strictly between n * 2^e and
\* (n + 1) * 2^e when inexact, in which case n has at least 54 bits.  The
\* exponent of the last place a double of this size has is
\* e + BBitLen(n) - 53, and MinExponent for a subnormal.
Round(neg, n, e, inexact) ==
    Only({IF x = <<>> THEN Zero(neg)
          ELSE Only({IF last <= e THEN Packed(neg, x, e)
                     ELSE Only({RoundedHalf(neg, cut.quot,
                                            cut.inexact \/ inexact, last)
                                : cut \in {BShr(x, last - e - 1)}})
                     : last \in {Only({IF place < MinExponent
                                       THEN MinExponent ELSE place
                                       : place \in {e + (BBitLen(x)
                                                         - MantissaBits)}})}})
          : x \in {n}})

\* The double of an integer -2^31 < n < 2^31
Num(n) == Round(n < 0, BFromInt(IF n < 0 THEN -n ELSE n), 0, FALSE)

\* Beyond this many binary places between the highest bits of two numbers
\* the smaller one lies below the rounding position of the larger one and
\* only tips the rounding
FarApart == 128

\* big plus a number of sign neg that is more than FarApart places smaller
Tipped(big, neg) ==
    Round(big.neg,
          IF big.neg = neg THEN BShl(big.m, MantissaBits + 3)
          ELSE BSub(BShl(big.m, MantissaBits + 3), <<1>>),
          big.e - (MantissaBits + 3), TRUE)

\* x + y for finite numbers other than zero at most FarApart places apart:
\* the exact sum or difference of the mantissas at the lower exponent
AddAligned(x, y) ==
    Only({Only({IF x.neg = y.neg THEN Round(x.neg, BAdd(p, q), low, FALSE)
                ELSE Only({IF order = 0 THEN Zero(FALSE)
                           ELSE IF order > 0
                           THEN Round(x.neg, BSub(p, q), low, FALSE)
                           ELSE Round(y.neg, BSub(q, p), low, FALSE)
                           : order \in {BCmp(p, q)}})
                : p \in {BShl(x.m, x.e - low)}, q \in {BShl(y.m, y.e - low)}})
          : low \in {IF x.e < y.e THEN x.e ELSE y.e}})

\* left + right
jsAdd(a, b) ==
    Only({IF x.nan \/ y.nan THEN NaN
          ELSE IF x.inf /\ y.inf THEN (IF x.neg = y.neg THEN x ELSE NaN)
          ELSE IF x.inf THEN x
          ELSE IF y.inf THEN y
          ELSE IF IsZero(x) /\ IsZero(y) THEN Zero(x.neg /\ y.neg)
          ELSE IF IsZero(x) THEN y
          ELSE IF IsZero(y) THEN x
          ELSE IF Top(x) - Top(y) > FarApart THEN Tipped(x, y.neg)
          ELSE IF Top(y) - Top(x) > FarApart THEN Tipped(y, x.neg)
          ELSE AddAligned(x, y)
          : x \in {a}, y \in {b}})

\* left - right
jsSub(a, b) == jsAdd(a, Negate(b))

\* left * right
jsMul(a, b) ==
    Only({IF x.nan \/ y.nan THEN NaN
          ELSE IF (x.inf /\ IsZero(y)) \/ (IsZero(x) /\ y.inf) THEN NaN
          ELSE IF x.inf \/ y.inf THEN Infinity(x.neg # y.neg)
          ELSE Round(x.neg # y.neg, BMul(x.m, y.m), x.e + y.e, FALSE)
          : x \in {a}, y \in {b}})

\* The quotient of two finite numbers other than zero: the dividend's
\* mantissa is scaled up until the integer quotient has at least 55 bits,
\* and the remainder tells whether the quotient is exact
DivFinite(x, y) ==
    Only({Only({
        Round(x.neg # y.neg, d.quot, x.e - y.e - up, d.rem # <<>>)
        : d \in {BDivMod(BShl(x.m, up), y.m)}})
        : up \in {MantissaBits + 2 + BBitLen(y.m) - BBitLen(x.m)}})

\* left / right
jsDiv(a, b) ==
    Only({IF x.nan \/ y.nan THEN NaN
          ELSE IF (x.inf /\ y.inf) \/ (IsZero(x) /\ IsZero(y)) THEN NaN
          ELSE IF x.inf \/ IsZero(y) THEN Infinity(x.neg # y.neg)
          ELSE IF y.inf \/ IsZero(x) THEN Zero(x.neg # y.neg)
          ELSE DivFinite(x, y)
          : x \in {a}, y \in {b}})

\* Ten to the power k
RECURSIVE BPowerOfTen(_)
BPowerOfTen(k) ==
    IF k = 0 THEN <<1>>
    ELSE IF k % 2 = 1 THEN BMulSmall(BPowerOfTen(k - 1), 10)
    ELSE Only({BMul(half, half) : half \in {BPowerOfTen(k \div 2)}})

\* The integer written by the digits at positions low..high, nine of them
\* at most
RECURSIVE Decimal(_, _, _)
Decimal(digits, low, high) ==
    IF low > high THEN 0
    ELSE Decimal(digits, low, high - 1) * 10 + DigitValue(digits[high])

\* The natural number written by the digits at positions low..high
RECURSIVE BDecimal(_, _, _)
BDecimal(digits, low, high) ==
    IF high - low < 9 THEN BFromInt(Decimal(digits, low, high))
    ELSE Only({BAdd(BMul(BDecimal(digits, low, mid), BPowerOfTen(high - mid)),
                    BDecimal(digits, mid + 1, high))
               : mid \in {(low + high) \div 2}})

\* Number(result) for a string of decimal digits
Number(digits) ==
    Only({Round(FALSE, BDecimal(d, 1, Len(d)), 0, FALSE) : d \in {digits}})

----------------------------------------------------------------------------
(* Thrown errors and the results of calls that may throw *)

NoError == [message |-> "", carries |-> <<>>, thrownBy |-> ""]

InvalidCharacter(c) ==
    [message |-> "Invalid character: " \o c, carries |-> <<c>>,
     thrownBy |-> "Lexer.getNextToken"]

ExpectedButGot(tokenType, actual) ==
    [message |-> "Expected " \o tokenType \o " but got " \o actual,
     carries |-> <<tokenType, actual>>, thrownBy |-> "Parser.eat"]

InvalidFactor ==
    [message |-> "Invalid factor", carries |-> <<>>,
     thrownBy |-> "Parser.factor"]

UnknownOperator(op) ==
    [message |-> "Unknown operator: " \o op, carries |-> <<op>>,
     thrownBy |-> "Interpreter.visitBinaryOperation"]

NotDefined(name) ==
    [message |-> "Variable " \o name \o " is not defined",
     carries |-> <<name>>, thrownBy |-> "Interpreter.visitVariable"]

UnknownNodeType(type) ==
    [message |-> "Unknown node type: " \o type, carries |-> <<type>>,
     thrownBy |-> "Interpreter.evaluate"]

----------------------------------------------------------------------------
(* Lexer *)

\* input[i] of JavaScript, zero based: undefined outside the string.
CharAt(input, i) ==
    IF i >= 0 /\ i < Len(input) THEN Char(input[i + 1]) ELSE undefined

Lexer(input) ==
    [input |-> input, position |-> 0, currentChar |-> CharAt(input, 0)]


advance(l) ==
    [l EXCEPT !.position = l.position + 1,
              !.currentChar = IF l.position + 1 < Len(l.input)
                              THEN CharAt(l.input, l.position + 1)
                              ELSE null]

RECURSIVE skipWhitespace(_)
skipWhitespace(l) ==
    IF Truthy(l.currentChar) /\ l.currentChar.s \in Whitespace
    THEN Bind(advance(l), LAMBDA next : skipWhitespace(next))
    ELSE l

\* The lexer after advance() has been called until the cursor is at stop
advanced(l, stop) ==
    [l EXCEPT !.position = stop,
              !.currentChar = IF stop < Len(l.input)
                              THEN CharAt(l.input, stop)
                              ELSE null]

\* The cursor at which the loop of getNumber ends: at the first character
\* after the cursor that is no digit, or at the end of the input
NumberEnd(l) ==
    Lowest({j \in (l.position + 1)..Len(l.input) :
               j = Len(l.input) \/ l.input[j + 1] \notin Digits})

\* The loop of getNumber from lexer l, whose current character is the one
\* at its cursor, with the digits read so far: every iteration appends the
\* current character and advances, so the loop as a whole appends the
\* digits from the cursor to where it ends.  (A numeral may be hundreds of
\* digits long; the loop is not unfolded digit by digit.)
getNumberLoop(l, digits) ==
    IF Truthy(l.currentChar) /\ l.currentChar.s \in Digits
    THEN Only({[lexer |-> advanced(l, stop),
                value |-> Number(digits
                                 \o SubSeq(l.input, l.position + 1, stop))]
               : stop \in {NumberEnd(l)}})
    ELSE [lexer |-> l, value |-> Number(digits)]

getNumber(l) == getNumberLoop(l, <<>>)

RECURSIVE getIdentifierLoop(_, _)
getIdentifierLoop(l, name) ==
    IF Truthy(l.currentChar) /\ l.currentChar.s \in IdentifierChars
    THEN Bind(advance(l), LAMBDA next :
         Bind(name \o l.currentChar.s, LAMBDA read :
              getIdentifierLoop(next, read)))
    ELSE [lexer |-> l, value |-> name]

getIdentifier(l) == getIdentifierLoop(l, "")

Token(type, value) == [type |-> type, value |-> value]

EOFToken == Token("EOF", null)

Punctuation == {"=", "+", "-", "*", "/", "(", ")", ";"}

\* PunctuationType with the type of '+' copied to '-'
PunctuationTypeCopied(c) ==
    CASE c = "=" -> "ASSIGN" [] c = "+" -> "PLUS" [] c = "-" -> "PLUS"
      [] c = "*" -> "MULTIPLY" [] c = "/" -> "DIVIDE" [] c = "(" -> "LPAREN"
      [] c = ")" -> "RPAREN" [] c = ";" -> "SEMICOLON"

PunctuationType(c) ==
    CASE c = "=" -> "ASSIGN" [] c = "+" -> "PLUS" [] c = "-" -> "MINUS"
      [] c = "*" -> "MULTIPLY" [] c = "/" -> "DIVIDE" [] c = "(" -> "LPAREN"
      [] c = ")" -> "RPAREN" [] c = ";" -> "SEMICOLON"

Lexed(l, token) ==
    [lexer |-> l, token |-> token, thrown |-> FALSE, error |-> NoError]

LexThrow(l, error) ==
    [lexer |-> l, token |-> EOFToken, thrown |-> TRUE, error |-> error]

\* getNextToken of a lexer that starts over once it has reached the end
RECURSIVE getNextTokenRewinding(_)
getNextTokenRewinding(l) ==
    IF ~Truthy(l.currentChar) THEN Lexed(Lexer(l.input), EOFToken)
    ELSE LET c == l.currentChar.s
         IN IF c \in Whitespace
            THEN Bind(skipWhitespace(l), LAMBDA next : getNextTokenRewinding(next))
            ELSE IF c \in Digits
            THEN Bind(getNumber(l), LAMBDA n :
                      Lexed(n.lexer, Token("NUMBER", n.value)))
            ELSE IF c \in Letters
            THEN Bind(getIdentifier(l), LAMBDA n :
                      Lexed(n.lexer, Token("IDENTIFIER", n.value)))
            ELSE IF c \in Punctuation
            THEN Lexed(advance(l), Token(PunctuationType(c), c))
            ELSE LexThrow(l, InvalidCharacter(c))

RECURSIVE getNextToken(_)
getNextToken(l) ==
    IF ~Truthy(l.currentChar) THEN Lexed(l, EOFToken)
    ELSE LET c == l.currentChar.s
         IN IF c \in Whitespace
            THEN Bind(skipWhitespace(l), LAMBDA next : getNextToken(next))
            ELSE IF c \in Digits
            THEN Bind(getNumber(l), LAMBDA n :
                      Lexed(n.lexer, Token("NUMBER", n.value)))
            ELSE IF c \in Letters
            THEN Bind(getIdentifier(l), LAMBDA n :
                      Lexed(n.lexer, Token("IDENTIFIER", n.value)))
            ELSE IF c \in Punctuation
            THEN Lexed(advance(l), Token(PunctuationType(c), c))
            ELSE LexThrow(l, InvalidCharacter(c))

----------------------------------------------------------------------------
(* Parser *)

NoNode == [type |-> "none"]

NumberLiteral(value) == [type |-> "NumberLiteral", value |-> value]

Variable(name) == [type |-> "Variable", name |-> name]

BinaryOperation(operator, left, right) ==
    [type |-> "BinaryOperation", operator |-> operator,
     left |-> left, right |-> right]

Assignment(name, value) ==
    [type |-> "Assignment", name |-> name, value |-> value]

Program(body) == [type |-> "Program", body |-> body]

Parsed(p, node) ==
    [parser |-> p, node |-> node, thrown |-> FALSE, error |-> NoError]

ParseThrow(p, error) ==
    [parser |-> p, node |-> NoNode, thrown |-> TRUE, error |-> error]

\* Statement sequencing under exceptions: when the call that produced r
\* threw, the throw propagates and the rest is skipped; otherwise the rest
\* runs on r.
Try(r, Rest(_)) ==
    CHOOSE v \in {IF x.thrown THEN x ELSE Rest(x) : x \in {r}} : TRUE

\* new Parser(lexer): the constructor reads the first token.
ParserOf(g) ==
    IF g.thrown
    THEN ParseThrow([lexer |-> g.lexer, currentToken |-> undefined], g.error)
    ELSE Parsed([lexer |-> g.lexer, currentToken |-> g.token], NoNode)

Parser(l) == Bind(getNextToken(l), LAMBDA g : ParserOf(g))

\* this.currentToken = this.lexer.getNextToken()
setCurrentToken(p, g) ==
    IF g.thrown
    THEN ParseThrow([p EXCEPT !.lexer = g.lexer], g.error)
    ELSE Parsed([lexer |-> g.lexer, currentToken |-> g.token], NoNode)

eat(p, tokenType) ==
    IF p.currentToken.type = tokenType
    THEN Bind(getNextToken(p.lexer), LAMBDA g : setCurrentToken(p, g))
    ELSE ParseThrow(p, ExpectedButGot(tokenType, p.currentToken.type))

RECURSIVE factor(_), term(_), termLoop(_, _), expr(_), exprLoop(_, _)

factor(p) ==
    IF p.currentToken.type = "NUMBER"
    THEN Try(eat(p, "NUMBER"),
             LAMBDA e : Parsed(e.parser, NumberLiteral(p.currentToken.value)))
    ELSE IF p.currentToken.type = "LPAREN"
    THEN Try(eat(p, "LPAREN"),
             LAMBDA e : Try(expr(e.parser),
             LAMBDA n : Try(eat(n.parser, "RPAREN"),
             LAMBDA c : Parsed(c.parser, n.node))))
    ELSE IF p.currentToken.type = "IDENTIFIER"
    THEN Try(eat(p, "IDENTIFIER"),
             LAMBDA e : Parsed(e.parser, Variable(p.currentToken.value)))
    ELSE ParseThrow(p, InvalidFactor)

\* The while loop of term, entered with the node built so far
termLoop(p, node) ==
    IF p.currentToken.type \in {"MULTIPLY", "DIVIDE"}
    THEN Try(eat(p, p.currentToken.type),
             LAMBDA e : Try(factor(e.parser),
             LAMBDA f : termLoop(f.parser,
                            BinaryOperation(p.currentToken.value, node, f.node))))
    ELSE Parsed(p, node)

term(p) == Try(factor(p), LAMBDA f : termLoop(f.parser, f.node))

\* Mutant of exprLoop: one loop for all four operators with factor operands,
\* so that * and / no longer bind tighter than + and -.
exprLoopFlat(p, node) ==
    IF p.currentToken.type \in {"PLUS", "MINUS", "MULTIPLY", "DIVIDE"}
    THEN Try(eat(p, p.currentToken.type),
             LAMBDA e : Try(factor(e.parser),
             LAMBDA f : exprLoop(f.parser,
                            BinaryOperation(p.currentToken.value, node, f.node))))
    ELSE Parsed(p, node)

\* Mutant of exprLoop: the right operand is a whole expr, which groups a
\* chain of + and - to the right.
exprLoopRight(p, node) ==
    IF p.currentToken.type \in {"PLUS", "MINUS"}
    THEN Try(eat(p, p.currentToken.type),
             LAMBDA e : Try(expr(e.parser),
             LAMBDA t : Parsed(t.parser,
                            BinaryOperation(p.currentToken.value, node, t.node))))
    ELSE Parsed(p, node)

\* The while loop of expr, entered with the node built so far
exprLoop(p, node) ==
    IF p.currentToken.type \in {"PLUS", "MINUS"}
    THEN Try(eat(p, p.currentToken.type),
             LAMBDA e : Try(term(e.parser),
             LAMBDA t : exprLoop(t.parser,
                            BinaryOperation(p.currentToken.value, node, t.node))))
    ELSE Parsed(p, node)

expr(p) == Try(term(p), LAMBDA t : exprLoop(t.parser, t.node))

assignment(p) ==
    Try(eat(p, "IDENTIFIER"),
        LAMBDA i : Try(eat(i.parser, "ASSIGN"),
        LAMBDA a : Try(expr(a.parser),
        LAMBDA value : Parsed(value.parser,
                           Assignment(p.currentToken.value, value.node)))))

\* The raw source character under the lexer's cursor decides.
\* Two-token lookahead: an IDENTIFIER followed by an ASSIGN token
IsAssignmentStartByTokens(p) ==
    /\ p.currentToken.type = "IDENTIFIER"
    /\ getNextToken(p.lexer).token.type = "ASSIGN"

IsAssignmentStart(p) ==
    /\ p.currentToken.type = "IDENTIFIER"
    /\ CharAt(p.lexer.input, p.lexer.position) = Char("=")

statement(p) == IF IsAssignmentStart(p) THEN assignment(p) ELSE expr(p)

\* The result of a step of Parser.program: the parser, the statements
\* pushed so far, and the error when the step threw.
Pushed(r, stmts) ==
    [parser |-> r.parser, statements |-> stmts,
     thrown |-> r.thrown, error |-> r.error]

\* if (this.currentToken.type === 'SEMICOLON') this.eat('SEMICOLON')
eatSemicolon(s, stmts) ==
    IF s.parser.currentToken.type = "SEMICOLON"
    THEN Pushed(eat(s.parser, "SEMICOLON"), stmts)
    ELSE Pushed(s, stmts)

\* statements.push(this.statement()), then the SEMICOLON after it
\* pushStatement of a parser that drops a statement it could not parse and
\* goes on where the error left it
pushStatementRecovering(s, stmts) ==
    IF s.thrown
    THEN [parser |-> s.parser, statements |-> stmts, thrown |-> FALSE,
          error |-> NoError]
    ELSE eatSemicolon(s, Append(stmts, s.node))

pushStatement(s, stmts) ==
    IF s.thrown THEN Pushed(s, stmts)
    ELSE eatSemicolon(s, Append(stmts, s.node))

\* One iteration of the while loop of Parser.program on the statements
\* pushed so far.
programIteration(p, stmts) ==
    Bind(statement(p), LAMBDA s : pushStatement(s, stmts))

----------------------------------------------------------------------------
(* Interpreter *)

Interpreter == [variables |-> [n \in {} |-> undefined]]

\* Map.prototype.get
MapGet(m, key) == IF key \in DOMAIN m THEN m[key] ELSE undefined

\* A set that starts a new map with the one binding
MapSetFresh(m, key, value) == [k \in {key} |-> value]

\* Map.prototype.set
MapSet(m, key, value) ==
    [k \in DOMAIN m \cup {key} |-> IF k = key THEN value ELSE m[k]]

Value(i, v) ==
    [interpreter |-> i, value |-> v, thrown |-> FALSE, error |-> NoError]

EvalThrow(i, error) ==
    [interpreter |-> i, value |-> undefined, thrown |-> TRUE, error |-> error]

RECURSIVE evaluate(_, _)

visitNumberLiteral(i, node) == Value(i, node.value)

\* applyOperator with a guard against a zero divisor
applyOperatorChecked(i, operator, left, right) ==
    CASE operator = "+" -> Value(i, jsAdd(left, right))
      [] operator = "-" -> Value(i, jsSub(left, right))
      [] operator = "*" -> Value(i, jsMul(left, right))
      [] operator = "/" ->
            IF IsZero(right)
            THEN EvalThrow(i, [message |-> "Division by zero",
                               carries |-> <<>>,
                               thrownBy |-> "Interpreter.visitBinaryOperation"])
            ELSE Value(i, jsDiv(left, right))
      [] OTHER -> EvalThrow(i, UnknownOperator(operator))

applyOperator(i, operator, left, right) ==
    CASE operator = "+" -> Value(i, jsAdd(left, right))
      [] operator = "-" -> Value(i, jsSub(left, right))
      [] operator = "*" -> Value(i, jsMul(left, right))
      [] operator = "/" -> Value(i, jsDiv(left, right))
      [] OTHER -> EvalThrow(i, UnknownOperator(operator))

visitBinaryOperation(i, node) ==
    Try(evaluate(i, node.left), LAMBDA left :
        Try(evaluate(left.interpreter, node.right), LAMBDA right :
            applyOperator(right.interpreter, node.operator,
                          left.value, right.value)))

\* Mutant of visitVariable: an unbound name reads as 0.
visitVariableDefault(i, node) ==
    LET value == MapGet(i.variables, node.name)
    IN IF value = undefined THEN Value(i, Num(0)) ELSE Value(i, value)

visitVariable(i, node) ==
    LET value == MapGet(i.variables, node.name)
    IN IF value = undefined
       THEN EvalThrow(i, NotDefined(node.name))
       ELSE Value(i, value)

visitAssignment(i, node) ==
    LET value == evaluate(i, node.value)
    IN IF value.thrown THEN value
       ELSE Value([value.interpreter EXCEPT
                      !.variables = MapSet(@, node.name, value.value)],
                  value.value)

\* visitProgram: result is left unassigned by an empty body; a throw of a
\* statement ends the loop.
RECURSIVE visitProgramFrom(_, _, _, _)
visitProgramFrom(i, body, k, res) ==
    IF k > Len(body) THEN Value(i, res)
    ELSE Only({IF r.thrown THEN r
               ELSE visitProgramFrom(r.interpreter, body, k + 1, r.value)
               : r \in {evaluate(i, body[k])}})

visitProgram(i, node) == visitProgramFrom(i, node.body, 1, undefined)

\* evaluate.  The state machine runs the root Program one statement per
\* step (VisitStatement), which is the loop of visitProgram unrolled.
evaluate(i, node) ==
    CASE node.type = "Program" -> visitProgram(i, node)
      [] node.type = "NumberLiteral" -> visitNumberLiteral(i, node)
      [] node.type = "BinaryOperation" -> visitBinaryOperation(i, node)
      [] node.type = "Variable" -> visitVariable(i, node)
      [] node.type = "Assignment" -> visitAssignment(i, node)
      [] OTHER -> EvalThrow(i, UnknownNodeType(node.type))

----------------------------------------------------------------------------
(* executeCode *)

\* return { success: true, result }
Success(r) == [success |-> TRUE, result |-> r]

\* Mutant of Catch: the error is swallowed and the run reported a success.
CatchSwallowed(error) == Success(undefined)

\* catch (error) { return { success: false, error: error.message } }
Catch(error) == [success |-> FALSE, error |-> error.message]

----------------------------------------------------------------------------
(* Source texts explored: the programs of the file's testCases, the        *)
(* documented examples with and without blanks around '=', every text of   *)
(* up to MaxLen characters over Alphabet and every text of up to           *)
(* MaxArithLen characters over ArithAlphabet.                              *)

TestCase1 == <<"x", " ", "=", " ", "5", ";", " ", "y", " ", "=", " ", "1", "0", ";", " ", "x", " ", "+", " ", "y", " ", "*", " ", "2", ";">>

TestCase2 == <<"a", " ", "=", " ", "1", "5", " ", "/", " ", "3", ";", " ", "b", " ", "=", " ", "a", " ", "*", " ", "2", ";", " ", "b", " ", "-", " ", "5", ";">>

TestCase3 == <<"r", "e", "s", "u", "l", "t", " ", "=", " ", "(", "1", "0", " ", "+", " ", "5", ")", " ", "*", " ", "2", ";">>

Compact1 == <<"x", "=", "5", ";", " ", "y", "=", "1", "0", ";", " ", "x", " ", "+", " ", "y", " ", "*", " ", "2", ";">>

Compact2 == <<"a", "=", "1", "5", " ", "/", " ", "3", ";", " ", "b", "=", "a", " ", "*", " ", "2", ";", " ", "b", " ", "-", " ", "5", ";">>

Compact3 == <<"r", "e", "s", "u", "l", "t", "=", "(", "1", "0", " ", "+", " ", "5", ")", " ", "*", " ", "2", ";">>

Precedence1 == <<"2", " ", "+", " ", "3", " ", "*", " ", "4">>

Precedence2 == <<"(", "2", " ", "+", " ", "3", ")", " ", "*", " ", "4">>

LeftAssoc1 == <<"1", "0", " ", "-", " ", "3", " ", "-", " ", "2">>

LeftAssoc2 == <<"8", " ", "/", " ", "4", " ", "/", " ", "2">>

Overwrite == <<"a", " ", "=", " ", "1", ";", " ", "a", " ", "=", " ", "a", " ", "+", " ", "1", ";", " ", "a", ";">>

OverwriteCompact == <<"a", "=", "1", ";", " ", "a", "=", "a", " ", "+", " ", "1", ";", " ", "a", ";">>

UndefinedRef == <<"b", " ", "+", " ", "1", ";">>

BadSyntax == <<"2", " ", "+", " ", ";">>

BadChar == <<"2", " ", "$", " ", "3", ";">>

Unclosed == <<"(", "2", " ", "+", " ", "3">>

NoSeparator1 == <<"1", " ", "2">>

NoSeparator2 == <<"x", "=", "1", " ", "y", "=", "2">>

LateBadChar == <<"x", "=", "5", ";", " ", "2", " ", "$", " ", "3">>

LateBadSyntax == <<"x", "=", "5", ";", " ", "2", " ", "+", " ", ";">>

DivideByZero == <<"x", "=", "1", "/", "0", ";", " ", "x", " ", "-", " ", "1">>

ZeroByZero == <<"0", "/", "0", ";", " ", "7">>

\* White space other than the blank: a vertical tab, a tab and a line feed
OtherSpaces == <<VerticalTab, "1", "\t", "+", "\n", "2">>

\* White space outside ASCII: a no-break space, an Ogham space mark and a
\* zero width no-break space
UnicodeSpaces ==
    <<NoBreakSpace, "1", OghamSpaceMark, "+", ZeroWidthNoBreakSpace, "2">>

\* Quotients that no double holds exactly: 1/10 + 2/10 is
\* 0.30000000000000004 and 1/49 * 49 is 0.9999999999999999
Rounded1 == <<"1", "/", "1", "0", "+", "2", "/", "1", "0">>

Rounded2 == <<"1", "/", "4", "9", "*", "4", "9">>

\* A numeral of 22 digits, which no double holds exactly: the double next
\* to it is 1234567890123456774144
LongNumeral ==
    <<"1", "2", "3", "4", "5", "6", "7", "8", "9", "0", "1",
      "2", "3", "4", "5", "6", "7", "8", "9", "0", "1", "2">>

\* A numeral of 309 digits, all of them 9: it lies above every finite double
\* and Number() of it is Infinity
Overflowing ==
    <<"9", "9", "9", "9", "9", "9", "9", "9", "9", "9", "9", "9",
      "9", "9", "9", "9", "9", "9", "9", "9", "9", "9", "9", "9",
      "9", "9", "9", "9", "9", "9", "9", "9", "9", "9", "9", "9",
      "9", "9", "9", "9", "9", "9", "9", "9", "9", "9", "9", "9",
      "9", "9", "9", "9", "9", "9", "9", "9", "9", "9", "9", "9",
      "9", "9", "9", "9", "9", "9", "9", "9", "9", "9", "9", "9",
      "9", "9", "9", "9", "9", "9", "9", "9", "9", "9", "9", "9",
      "9", "9", "9", "9", "9", "9", "9", "9", "9", "9", "9", "9",
      "9", "9", "9", "9", "9", "9", "9", "9", "9", "9", "9", "9",
      "9", "9", "9", "9", "9", "9", "9", "9", "9", "9", "9", "9",
      "9", "9", "9", "9", "9", "9", "9", "9", "9", "9", "9", "9",
      "9", "9", "9", "9", "9", "9", "9", "9", "9", "9", "9", "9",
      "9", "9", "9", "9", "9", "9", "9", "9", "9", "9", "9", "9",
      "9", "9", "9", "9", "9", "9", "9", "9", "9", "9", "9", "9",
      "9", "9", "9", "9", "9", "9", "9", "9", "9", "9", "9", "9",
      "9", "9", "9", "9", "9", "9", "9", "9", "9", "9", "9", "9",
      "9", "9", "9", "9", "9", "9", "9", "9", "9", "9", "9", "9",
      "9", "9", "9", "9", "9", "9", "9", "9", "9", "9", "9", "9",
      "9", "9", "9", "9", "9", "9", "9", "9", "9", "9", "9", "9",
      "9", "9", "9", "9", "9", "9", "9", "9", "9", "9", "9", "9",
      "9", "9", "9", "9", "9", "9", "9", "9", "9", "9", "9", "9",
      "9", "9", "9", "9", "9", "9", "9", "9", "9", "9", "9", "9",
      "9", "9", "9", "9", "9", "9", "9", "9", "9", "9", "9", "9",
      "9", "9", "9", "9", "9", "9", "9", "9", "9", "9", "9", "9",
      "9", "9", "9", "9", "9", "9", "9", "9", "9", "9", "9", "9",
      "9", "9", "9", "9", "9", "9", "9", "9", "9">>

\* The underscore: read as part of an identifier after a letter, rejected
\* where a token starts
UnderscoreName == <<"x", "_", "=", "1">>

UnderscoreThenBad == <<"x", "_", "$">>

UnderscoreStart == <<"1", "_", "x">>

Samples ==
    {TestCase1, TestCase2, TestCase3, Compact1, DivideByZero, ZeroByZero,
     Compact2, Compact3, Precedence1, Precedence2,
     LeftAssoc1, LeftAssoc2, Overwrite, OverwriteCompact,
     UndefinedRef, BadSyntax, BadChar, Unclosed,
     NoSeparator1, NoSeparator2, LateBadChar, LateBadSyntax,
     OtherSpaces, UnicodeSpaces, Rounded1, Rounded2,
     UnderscoreName, UnderscoreThenBad, UnderscoreStart}

Alphabet == {"x", "1", "=", "+", "*", "(", ")", ";", " ", "$"}

ArithAlphabet == {"2", "-", "/", "(", ")"}

Texts(S, n) == UNION {[1..k -> S] : k \in 0..n}

Inputs == Samples \cup Texts(Alphabet, MaxLen) \cup Texts(ArithAlphabet, MaxArithLen)

----------------------------------------------------------------------------
(* The state machine: one call of executeCode on sourceCode *)

Init ==
    /\ sourceCode \in Inputs
    /\ pc = "call"
    /\ parser = undefined
    /\ interpreter = undefined
    /\ statements = <<>>
    /\ ast = undefined
    /\ idx = 0
    /\ result = undefined
    /\ raised = NoError
    /\ ret = undefined
    /\ history = <<>>
    /\ lexer = undefined
    /\ emitted = <<>>
    /\ calls = 0
    /\ lexError = NoError

\* Construct with an Interpreter that is made once and kept between calls
ConstructShared ==
    /\ pc = "call"
    /\ LET c == Parser(Lexer(sourceCode))
       IN /\ parser' = c.parser
          /\ IF c.thrown
             THEN /\ raised' = c.error
                  /\ ret' = Catch(c.error)
                  /\ pc' = "returned"
                  /\ UNCHANGED interpreter
             ELSE /\ interpreter' = IF interpreter = undefined
                                    THEN Interpreter
                                    ELSE interpreter
                  /\ pc' = "program"
                  /\ UNCHANGED <<raised, ret>>
    /\ UNCHANGED <<sourceCode, statements, ast, idx, result>>
    /\ UNCHANGED driver

\* new Lexer, new Parser (which reads the first token), new Interpreter
Construct ==
    /\ pc = "call"
    /\ LET c == Parser(Lexer(sourceCode))
       IN /\ parser' = c.parser
          /\ IF c.thrown
             THEN /\ raised' = c.error
                  /\ ret' = Catch(c.error)
                  /\ pc' = "returned"
                  /\ UNCHANGED interpreter
             ELSE /\ interpreter' = Interpreter
                  /\ pc' = "program"
                  /\ UNCHANGED <<raised, ret>>
    /\ UNCHANGED <<sourceCode, statements, ast, idx, result>>
    /\ UNCHANGED driver

\* ProgramLoop of an interpreter that evaluates each statement as soon as
\* it is parsed
ProgramLoopEager ==
    /\ pc = "program"
    /\ parser.currentToken.type # "EOF"
    /\ LET r == programIteration(parser, statements)
       IN /\ parser' = r.parser
          /\ statements' = r.statements
          /\ IF r.thrown
             THEN /\ raised' = r.error
                  /\ ret' = Catch(r.error)
                  /\ pc' = "returned"
                  /\ UNCHANGED interpreter
             ELSE /\ interpreter' =
                        evaluate(interpreter,
                                 r.statements[Len(r.statements)]).interpreter
                  /\ UNCHANGED <<raised, ret, pc>>
    /\ UNCHANGED <<sourceCode, ast, idx, result>>
    /\ UNCHANGED driver

\* One iteration of the while loop of Parser.program
ProgramLoop ==
    /\ pc = "program"
    /\ parser.currentToken.type # "EOF"
    /\ LET r == programIteration(parser, statements)
       IN /\ parser' = r.parser
          /\ statements' = r.statements
          /\ IF r.thrown
             THEN /\ raised' = r.error
                  /\ ret' = Catch(r.error)
                  /\ pc' = "returned"
             ELSE UNCHANGED <<raised, ret, pc>>
    /\ UNCHANGED <<sourceCode, interpreter, ast, idx, result>>
    /\ UNCHANGED driver

\* Parser.program returns the Program node; interpreter.evaluate(ast)
\* enters visitProgram.
ProgramReturn ==
    /\ pc = "program"
    /\ parser.currentToken.type = "EOF"
    /\ ast' = Program(statements)
    /\ idx' = 1
    /\ pc' = "evaluate"
    /\ UNCHANGED <<sourceCode, parser, interpreter, statements, result,
                   raised, ret>>
    /\ UNCHANGED driver

\* VisitStatement of a loop that keeps the value of the first statement
VisitStatementKeepingFirst ==
    /\ pc = "evaluate"
    /\ idx <= Len(ast.body)
    /\ LET e == evaluate(interpreter, ast.body[idx])
       IN /\ interpreter' = e.interpreter
          /\ IF e.thrown
             THEN /\ raised' = e.error
                  /\ ret' = Catch(e.error)
                  /\ pc' = "returned"
                  /\ UNCHANGED <<result, idx>>
             ELSE /\ result' = IF idx = 1 THEN e.value ELSE result
                  /\ idx' = idx + 1
                  /\ UNCHANGED <<raised, ret, pc>>
    /\ UNCHANGED <<sourceCode, parser, statements, ast>>
    /\ UNCHANGED driver

\* One iteration of the for loop of visitProgram
VisitStatement ==
    /\ pc = "evaluate"
    /\ idx <= Len(ast.body)
    /\ LET e == evaluate(interpreter, ast.body[idx])
       IN /\ interpreter' = e.interpreter
          /\ IF e.thrown
             THEN /\ raised' = e.error
                  /\ ret' = Catch(e.error)
                  /\ pc' = "returned"
                  /\ UNCHANGED <<result, idx>>
             ELSE /\ result' = e.value
                  /\ idx' = idx + 1
                  /\ UNCHANGED <<raised, ret, pc>>
    /\ UNCHANGED <<sourceCode, parser, statements, ast>>
    /\ UNCHANGED driver

\* visitProgram returns result and executeCode returns success
Return ==
    /\ pc = "evaluate"
    /\ idx > Len(ast.body)
    /\ ret' = Success(result)
    /\ pc' = "returned"
    /\ UNCHANGED <<sourceCode, parser, interpreter, statements, ast, idx,
                   result, raised>>
    /\ UNCHANGED driver

Next == Construct \/ ProgramLoop \/ ProgramReturn \/ VisitStatement \/ Return

Spec == Init /\ [][Next]_vars

\* executeCode is synchronous, single-threaded code: once called it runs
\* every step it can take, so a step that is possible is taken.
FairInputs == Samples \cup Texts(Alphabet, MaxFairLen)

InitFair ==
    /\ sourceCode \in FairInputs
    /\ pc = "call"
    /\ parser = undefined
    /\ interpreter = undefined
    /\ statements = <<>>
    /\ ast = undefined
    /\ idx = 0
    /\ result = undefined
    /\ raised = NoError
    /\ ret = undefined
    /\ history = <<>>
    /\ lexer = undefined
    /\ emitted = <<>>
    /\ calls = 0
    /\ lexError = NoError

FairSpec == InitFair /\ [][Next]_vars /\ WF_vars(Next)

----------------------------------------------------------------------------
(* Several calls of executeCode, one after another *)

RunInputs ==
    {<<>>, <<"x">>, <<"$">>, <<"x", "=", "1">>, <<"x", "=", "2">>,
     <<"x", "+", "1">>, <<"y", "=", "x">>, <<"1", ";", "x">>}

InitRuns ==
    /\ sourceCode \in RunInputs
    /\ pc = "call"
    /\ parser = undefined
    /\ interpreter = undefined
    /\ statements = <<>>
    /\ ast = undefined
    /\ idx = 0
    /\ result = undefined
    /\ raised = NoError
    /\ ret = undefined
    /\ history = <<>>
    /\ lexer = undefined
    /\ emitted = <<>>
    /\ calls = 0
    /\ lexError = NoError

\* The next call of executeCode.  The locals of the new activation
\* (statements, ast, result, the loop index) are fresh; the Parser and the
\* Interpreter objects of the finished call stay where they are until
\* Construct makes new ones.
Call ==
    /\ pc = "returned"
    /\ Len(history) + 1 < MaxCalls
    /\ history' = Append(history, [sourceCode |-> sourceCode, ret |-> ret])
    /\ sourceCode' \in RunInputs
    /\ pc' = "call"
    /\ statements' = <<>>
    /\ ast' = undefined
    /\ idx' = 0
    /\ result' = undefined
    /\ raised' = NoError
    /\ ret' = undefined
    /\ UNCHANGED <<parser, interpreter, lexer, emitted, calls, lexError>>

NextRuns == Next \/ Call

SpecRuns == InitRuns /\ [][NextRuns]_vars

----------------------------------------------------------------------------
(* A Lexer on its own: getNextToken called again and again, also after it *)
(* has returned EOF or thrown                                              *)

LexAlphabet == {" ", "0", "1", "x", "_", "=", "-", "$"}

LexInputs ==
    {TestCase1, TestCase2, Compact1, Compact2, BadChar, LateBadChar,
     OtherSpaces, UnicodeSpaces, LongNumeral, Overflowing}
        \cup Texts(LexAlphabet, MaxLexLen)

InitLexer ==
    /\ sourceCode \in LexInputs
    /\ pc = "lexer"
    /\ lexer = Lexer(sourceCode)
    /\ emitted = <<>>
    /\ calls = 0
    /\ lexError = NoError
    /\ parser = undefined
    /\ interpreter = undefined
    /\ statements = <<>>
    /\ ast = undefined
    /\ idx = 0
    /\ result = undefined
    /\ raised = NoError
    /\ ret = undefined
    /\ history = <<>>

\* One call of lexer.getNextToken()
GetNextTokenCall ==
    /\ pc = "lexer"
    /\ calls < Len(sourceCode) + MaxExtraCalls
    /\ LET g == getNextToken(lexer)
       IN /\ lexer' = g.lexer
          /\ lexError' = g.error
          /\ emitted' = IF g.thrown THEN emitted ELSE Append(emitted, g.token)
    /\ calls' = calls + 1
    /\ UNCHANGED <<sourceCode, pc, parser, interpreter, statements, ast, idx,
                   result, raised, ret, history>>

NextLexer == GetNextTokenCall

SpecLexer == InitLexer /\ [][NextLexer]_vars

----------------------------------------------------------------------------
(* Reference definitions used by the properties *)

Range(s) == {s[i] : i \in 1..Len(s)}

\* The token stream of a source text: the tokens getNextToken returns up to
\* EOF; lexed is FALSE when the lexer throws on the way.
RECURSIVE TokensFrom(_)
TokensFrom(l) ==
    Only({IF g.thrown THEN [lexed |-> FALSE, tokens |-> <<>>]
          ELSE IF g.token.type = "EOF" THEN [lexed |-> TRUE, tokens |-> <<>>]
          ELSE Only({[lexed |-> rest.lexed,
                      tokens |-> <<g.token>> \o rest.tokens]
                     : rest \in {TokensFrom(g.lexer)}})
          : g \in {getNextToken(l)}})

Tokens(input) == TokensFrom(Lexer(input))

Additive == {"PLUS", "MINUS"}

Multiplicative == {"MULTIPLY", "DIVIDE"}

ArithKinds == {"NUMBER", "LPAREN", "RPAREN"} \cup Additive \cup Multiplicative

\* The characters of the texts whose tokens are numbers and operators of
\* arithmetic, and of those that have parentheses as well
ChainChars == Digits \cup Whitespace \cup {"+", "-", "*", "/"}

ArithChars == ChainChars \cup {"(", ")"}

\* Parenthesis depth of position i of a token sequence
Depth(ts, i) ==
    Cardinality({j \in 1..(i - 1) : ts[j].type = "LPAREN"})
    - Cardinality({j \in 1..(i - 1) : ts[j].type = "RPAREN"})

\* The positions of the operators of the given kinds outside all parentheses
TopLevel(ts, kinds) ==
    {i \in 1..Len(ts) : ts[i].type \in kinds /\ Depth(ts, i) = 0}

Last(S) == CHOOSE i \in S : \A j \in S : j <= i

\* The operator an expression is split at by the usual conventions: the
\* last + or - outside parentheses, or else the last * or / outside them.
SplitAt(ts) ==
    IF TopLevel(ts, Additive) # {} THEN Last(TopLevel(ts, Additive))
    ELSE IF TopLevel(ts, Multiplicative) # {}
    THEN Last(TopLevel(ts, Multiplicative))
    ELSE 0

Arith(type, a, b) ==
    CASE type = "PLUS" -> jsAdd(a, b) [] type = "MINUS" -> jsSub(a, b)
      [] type = "MULTIPLY" -> jsMul(a, b) [] type = "DIVIDE" -> jsDiv(a, b)

\* Well-formed expressions over numbers, variables, operators, parentheses
RECURSIVE StdValid(_)
StdValid(ts) ==
    IF Len(ts) = 0 THEN FALSE
    ELSE IF Len(ts) = 1 THEN ts[1].type \in {"NUMBER", "IDENTIFIER"}
    ELSE LET i == SplitAt(ts)
         IN IF i # 0
            THEN /\ StdValid(SubSeq(ts, 1, i - 1))
                 /\ StdValid(SubSeq(ts, i + 1, Len(ts)))
            ELSE /\ ts[1].type = "LPAREN"
                 /\ ts[Len(ts)].type = "RPAREN"
                 /\ StdValid(SubSeq(ts, 2, Len(ts) - 1))

\* The value of a well-formed expression without variables
RECURSIVE StdValue(_)
StdValue(ts) ==
    IF Len(ts) = 1 THEN ts[1].value
    ELSE LET i == SplitAt(ts)
         IN IF i # 0
            THEN Arith(ts[i].type, StdValue(SubSeq(ts, 1, i - 1)),
                       StdValue(SubSeq(ts, i + 1, Len(ts))))
            ELSE StdValue(SubSeq(ts, 2, Len(ts) - 1))

\* A chain n1 op n2 op ... of numbers and operators of one precedence level
IsChain(ts) ==
    /\ Len(ts) % 2 = 1
    /\ \A i \in 1..Len(ts) : i % 2 = 1 => ts[i].type = "NUMBER"
    /\ \/ \A i \in 1..Len(ts) : i % 2 = 0 => ts[i].type \in Additive
       \/ \A i \in 1..Len(ts) : i % 2 = 0 => ts[i].type \in Multiplicative

\* The chain evaluated from the left: ((n1 op n2) op n3) ...
RECURSIVE ChainValue(_)
ChainValue(ts) ==
    IF Len(ts) = 1 THEN ts[1].value
    ELSE Arith(ts[Len(ts) - 1].type,
               ChainValue(SubSeq(ts, 1, Len(ts) - 2)), ts[Len(ts)].value)

OperatorLevel(op) == IF op \in {"+", "-"} THEN "additive" ELSE "multiplicative"

\* No right operand is an unparenthesised operation of the same or a lower
\* level: the shape a left-deep parse of a text without parentheses has.
RECURSIVE LeftDeep(_)
LeftDeep(node) ==
    CASE node.type = "BinaryOperation" ->
           /\ LeftDeep(node.left)
           /\ LeftDeep(node.right)
           /\ node.right.type = "BinaryOperation" =>
                /\ OperatorLevel(node.operator) = "additive"
                /\ OperatorLevel(node.right.operator) = "multiplicative"
      [] node.type = "Assignment" -> LeftDeep(node.value)
      [] OTHER -> TRUE

\* The names an expression or statement reads
RECURSIVE Refs(_)
Refs(node) ==
    CASE node.type = "Variable" -> {node.name}
      [] node.type = "BinaryOperation" -> Refs(node.left) \cup Refs(node.right)
      [] node.type = "Assignment" -> Refs(node.value)
      [] OTHER -> {}

\* The names assigned by the statements before statement k
AssignedBefore(body, k) ==
    {body[j].name : j \in {j \in 1..(k - 1) : body[j].type = "Assignment"}}

\* The names statement k reads that no earlier statement has assigned
Unbound(body, k) == Refs(body[k]) \ AssignedBefore(body, k)

\* The characters getNextToken accepts at the start of a token, and white
\* space (lines 42 to 93)
AcceptedChars == Whitespace \cup Digits \cup Letters \cup Punctuation

\* Position i lies in an identifier: a letter stands at or before it and
\* only identifier characters stand from that letter to i.  A letter is
\* always read by getIdentifier, whose loop (line 33) goes on over letters,
\* digits and the underscore.
InIdentifier(input, i) ==
    \E j \in 1..i :
        /\ input[j] \in Letters
        /\ \A k \in j..i : input[k] \in IdentifierChars

\* The positions of the characters getNextToken rejects when it reaches
\* them: they start no token, are not white space and are not read as part
\* of an identifier
InvalidChars(input) ==
    {i \in 1..Len(input) :
        input[i] \notin AcceptedChars /\ ~InIdentifier(input, i)}

First(S) == CHOOSE i \in S : \A j \in S : i <= j

FactorStart == {"NUMBER", "LPAREN", "IDENTIFIER"}

\* The token sequences of  statement := IDENTIFIER ASSIGN expr | expr
GrammarStatement(ts) ==
    \/ StdValid(ts)
    \/ /\ Len(ts) >= 3
       /\ ts[1].type = "IDENTIFIER"
       /\ ts[2].type = "ASSIGN"
       /\ StdValid(SubSeq(ts, 3, Len(ts)))

\* The token sequences of
\*   program := statement (SEMICOLON statement)* SEMICOLON? EOF
RECURSIVE GrammarProgram(_)
GrammarProgram(ts) ==
    LET semis == {i \in 1..Len(ts) : ts[i].type = "SEMICOLON"}
    IN IF semis = {} THEN GrammarStatement(ts)
       ELSE LET i == First(semis)
            IN /\ GrammarStatement(SubSeq(ts, 1, i - 1))
               /\ \/ i = Len(ts)
                  \/ GrammarProgram(SubSeq(ts, i + 1, Len(ts)))

----------------------------------------------------------------------------
(* Properties *)

\* C1: executeCode on the three programs of testCases returns success with
\* 25, 5 and 30: a value bound by `name = expr` is read by later statements.
C1_TestCasesSucceed ==
    pc = "returned" =>
        /\ sourceCode = TestCase1 => ret = Success(Num(25))
        /\ sourceCode = TestCase2 => ret = Success(Num(5))
        /\ sourceCode = TestCase3 => ret = Success(Num(30))

\* C2: an error thrown by the Lexer, the Parser or the Interpreter ends the
\* call in executeCode's catch; the value returned is {success: true,
\* result} when nothing was thrown and {success: false, error} with the
\* thrown error's message when something was.
C2_StructuredResult ==
    /\ raised # NoError => pc = "returned"
    /\ pc = "returned" =>
         \/ /\ raised = NoError
            /\ DOMAIN ret = {"success", "result"}
            /\ ret.success = TRUE
         \/ /\ raised # NoError
            /\ DOMAIN ret = {"success", "error"}
            /\ ret.success = FALSE
            /\ ret.error = raised.message

C2_Witness ==
    /\ pc = "returned"
    /\ raised.thrownBy = "Interpreter.visitVariable"
    /\ ret.success = FALSE

\* C3: a well-formed expression of numbers, + - * / and parentheses
\* evaluates to its value under the usual conventions: * and / before + and
\* -, parentheses first.
C3_Precedence ==
    pc = "returned" /\ Range(sourceCode) \subseteq ArithChars =>
        LET t == Tokens(sourceCode)
        IN (/\ t.lexed
            /\ \A i \in 1..Len(t.tokens) : t.tokens[i].type \in ArithKinds
            /\ StdValid(t.tokens))
           => ret = Success(StdValue(t.tokens))

C3_Witness ==
    /\ pc = "returned"
    /\ sourceCode = Precedence2
    /\ ret = Success(Num(20))

\* C4: a text without parentheses is parsed into left-deep trees, and a
\* chain of operators of one level evaluates from the left: 10 - 3 - 2 is 5.
C4_LeftAssociative ==
    /\ "(" \notin Range(sourceCode) =>
           \A i \in 1..Len(statements) : LeftDeep(statements[i])
    /\ pc = "returned" /\ Range(sourceCode) \subseteq ChainChars =>
           LET t == Tokens(sourceCode)
           IN (t.lexed /\ IsChain(t.tokens))
              => ret = Success(ChainValue(t.tokens))

C4_Witness ==
    /\ pc = "returned"
    /\ sourceCode = LeftAssoc1
    /\ statements[1].left.type = "BinaryOperation"
    /\ ret = Success(Num(5))

\* C5: executeCode on "a = 1; a = a + 1; a;" returns success with 2: the
\* right-hand side reads the previous value, later statements the new one.
C5_SequentialOverwrite ==
    pc = "returned" /\ sourceCode = Overwrite => ret = Success(Num(2))

\* C6: a run that reads a name no earlier statement has assigned fails, and
\* the error names a variable that was read unassigned.
C6_UndefinedVariableFails ==
    (pc = "returned" /\ ast # undefined) =>
        LET body == ast.body
            bad == {k \in 1..Len(body) : Unbound(body, k) # {}}
        IN bad # {} =>
             /\ ret.success = FALSE
             /\ raised.thrownBy = "Interpreter.visitVariable"
             /\ \E n \in Unbound(body, First(bad)) :
                    ret.error = "Variable " \o n \o " is not defined"

C6_Witness ==
    /\ pc = "returned"
    /\ sourceCode = UndefinedRef
    /\ ret = [success |-> FALSE, error |-> "Variable b is not defined"]

\* C7: a lexical error carries the offending character and its position
\* (character offset) in the source.
C7_CarriesCharacterAndPosition ==
    raised.thrownBy = "Lexer.getNextToken" =>
        /\ ret.success = FALSE
        /\ parser.lexer.currentChar.s \in Range(raised.carries)
        /\ ToString(parser.lexer.position) \in Range(raised.carries)

\* C8: a syntax error raised by eat or factor names the expected token
\* kind, the actual token kind and the source position.
C8_NamesExpectedActualPosition ==
    raised.thrownBy \in {"Parser.eat", "Parser.factor"} =>
        /\ ret.success = FALSE
        /\ Len(raised.carries) >= 3
        /\ parser.currentToken.type \in Range(raised.carries)
        /\ ToString(parser.lexer.position) \in Range(raised.carries)

\* C9: a successful run returns a number, also for a text with no statement.
C9_SuccessIsNumeric ==
    (pc = "returned" /\ ret.success) => ret.result.t = "number"

\* C10: every token sequence the parser accepts is one of
\* program := statement (SEMICOLON statement)* SEMICOLON? EOF: a statement
\* directly followed by another with no SEMICOLON between them is rejected.
C10_AcceptsOnlyGrammar ==
    LET t == Tokens(sourceCode)
    IN (ast # undefined /\ t.lexed /\ t.tokens # <<>>)
          => GrammarProgram(t.tokens)

\* C11: executeCode is deterministic and its runs are isolated: a call
\* returns what every earlier call on the same source returned, whatever
\* calls came between, and while a call parses and evaluates, its lexer
\* reads its own source, its variable map is empty until its own parse is
\* done and only ever binds names its own source assigns.
C11_RunsIsolated ==
    /\ pc = "returned" =>
          \A i \in 1..Len(history) :
              history[i].sourceCode = sourceCode => history[i].ret = ret
    /\ pc \in {"program", "evaluate"} =>
          /\ parser.lexer.input = sourceCode
          /\ DOMAIN interpreter.variables \subseteq
                 {statements[k].name :
                     k \in {j \in 1..Len(statements) :
                               statements[j].type = "Assignment"}}
    /\ pc = "program" => DOMAIN interpreter.variables = {}

C11_Witness ==
    /\ pc = "returned"
    /\ Len(history) = 2
    /\ sourceCode = <<"x">>
    /\ history[1].sourceCode = <<"x">>
    /\ history[2].sourceCode = <<"x", "=", "1">>
    /\ history[2].ret = Success(Num(1))
    /\ ret = history[1].ret
    /\ ~ret.success

\* C12: a lexical or syntactic error anywhere in the source prevents
\* evaluation entirely: when the Lexer or the Parser has thrown, or the
\* source holds a character the Lexer rejects, no Program node was handed
\* to Interpreter.evaluate, no statement was evaluated, no variable is bound
\* and the call fails; evaluation starts only after the whole source has
\* been tokenized and parsed.
C12_ErrorsPreventEvaluation ==
    /\ raised.thrownBy \in {"Lexer.getNextToken", "Parser.eat", "Parser.factor"} =>
          /\ pc = "returned"
          /\ ret = Catch(raised)
          /\ ast = undefined
          /\ idx = 0
          /\ result = undefined
          /\ interpreter # undefined => DOMAIN interpreter.variables = {}
    /\ InvalidChars(sourceCode) # {} =>
          /\ pc # "evaluate"
          /\ interpreter # undefined => DOMAIN interpreter.variables = {}
          /\ pc = "returned" =>
                raised.thrownBy \in
                    {"Lexer.getNextToken", "Parser.eat", "Parser.factor"}
    /\ pc = "program" => idx = 0 /\ DOMAIN interpreter.variables = {}
    /\ pc = "evaluate" =>
          /\ parser.currentToken.type = "EOF"
          /\ parser.lexer.position >= Len(sourceCode)
          /\ ast = Program(statements)

\* The failing call of a source whose first statement is a valid assignment
C12_Witness ==
    /\ pc = "returned"
    /\ sourceCode \in {LateBadChar, LateBadSyntax}
    /\ Len(statements) = 1
    /\ statements[1] = Assignment("x", NumberLiteral(Num(5)))
    /\ raised.thrownBy \in {"Lexer.getNextToken", "Parser.factor"}
    /\ DOMAIN interpreter.variables = {}
    /\ ~ret.success

\* The nodes of a tree
RECURSIVE SubNodes(_)
SubNodes(node) ==
    CASE node.type = "BinaryOperation" ->
            {node} \cup SubNodes(node.left) \cup SubNodes(node.right)
      [] node.type = "Assignment" -> {node} \cup SubNodes(node.value)
      [] OTHER -> {node}

\* The IEEE 754 quotient of left by a zero: NaN for 0/0 and NaN/0, else the
\* infinity whose sign is the product of the operands' signs
QuotientByZero(left, right) ==
    IF left.nan \/ IsZero(left) THEN NaN
    ELSE Infinity(left.neg # right.neg)

\* C13: division by zero is not an error: a division whose divisor is zero
\* evaluates to the IEEE quotient (an infinity, NaN for 0/0), the only
\* errors ever raised are the lexer's, the parser's and the undefined
\* variable, a parsed program that reads no variable succeeds with all its
\* statements evaluated, and a success result is a number (or undefined),
\* never a string.
C13_DivisionByZeroIsNotAnError ==
    /\ \A k \in 1..Len(statements) :
          \A n \in SubNodes(statements[k]) :
              (n.type = "BinaryOperation" /\ n.operator = "/" /\ Refs(n) = {}) =>
                  LET left == evaluate(Interpreter, n.left).value
                      right == evaluate(Interpreter, n.right).value
                      quotient == evaluate(Interpreter, n)
                  IN /\ ~quotient.thrown
                     /\ IsZero(right) =>
                           quotient.value = QuotientByZero(left, right)
    /\ raised.thrownBy \in
          {"", "Lexer.getNextToken", "Parser.eat", "Parser.factor",
           "Interpreter.visitVariable"}
    /\ (pc = "returned" /\ ast # undefined
           /\ \A k \in 1..Len(ast.body) : Refs(ast.body[k]) = {}) =>
          /\ ret.success
          /\ idx = Len(ast.body) + 1
    /\ (pc = "returned" /\ ret.success) =>
          ret.result.t \in {"number", "undefined"}

\* 'x=1/0; x - 1' binds x to Infinity and succeeds with Infinity
C13_Witness ==
    /\ pc = "returned"
    /\ sourceCode = DivideByZero
    /\ interpreter.variables["x"] = Infinity(FALSE)
    /\ idx = 3
    /\ ret = Success(Infinity(FALSE))

\* C14: EOF is absorbing for the tokenizer: once getNextToken has returned
\* EOF, every later call returns EOF again, throws nothing and leaves the
\* lexer, its cursor position included, as it was; and a lexer that has
\* been called more often than its input is long without throwing has
\* returned EOF, whatever the input.
C14_EOFAbsorbing ==
    [][/\ (emitted # <<>> /\ emitted[Len(emitted)].type = "EOF") =>
            /\ emitted' = Append(emitted, EOFToken)
            /\ lexError' = NoError
            /\ lexer'.position = lexer.position
            /\ lexer' = lexer
       /\ (calls' > Len(sourceCode) /\ Len(emitted') = calls') =>
            emitted'[calls'].type = "EOF"]_vars

\* EOF returned three times over for an input that ends in white space
C14_Witness ==
    /\ sourceCode = <<"1", " ">>
    /\ calls = 4
    /\ emitted = <<Token("NUMBER", Num(1)), EOFToken, EOFToken, EOFToken>>
    /\ lexer.position = 2

\* The digit character of a value below ten
DigitChar(d) == CHOOSE c \in Digits : DigitValue(c) = d

\* The decimal digits of a natural number, none for zero
RECURSIVE BDecimalDigits(_)
BDecimalDigits(n) ==
    IF n = <<>> THEN <<>>
    ELSE Only({Append(BDecimalDigits(d.quot), DigitChar(d.rem))
               : d \in {BDivSmall(n, 10)}})

\* The decimal numeral, without leading zeros, of a number token's value: a
\* non-negative double that is an integer, or Infinity, which JavaScript
\* writes as the word
DecimalNumeral(value) ==
    IF IsInf(value) THEN <<"I", "n", "f", "i", "n", "i", "t", "y">>
    ELSE IF IsZero(value) THEN <<"0">>
    ELSE BDecimalDigits(IF value.e >= 0 THEN BShl(value.m, value.e)
                        ELSE BShr(value.m, -value.e).quot)

\* The string made of the characters of a text
RECURSIVE Implode(_)
Implode(text) ==
    IF text = <<>> THEN "" ELSE text[1] \o Implode(Tail(text))

\* The characters of a name, all of them among chars
Explode(name, chars) ==
    CHOOSE text \in [1..Len(name) -> chars] : Implode(text) = name

\* The character written for an operator or punctuation token of a kind
KindText(type) ==
    CASE type = "ASSIGN" -> "=" [] type = "PLUS" -> "+" [] type = "MINUS" -> "-"
      [] type = "MULTIPLY" -> "*" [] type = "DIVIDE" -> "/"
      [] type = "LPAREN" -> "(" [] type = "RPAREN" -> ")"
      [] type = "SEMICOLON" -> ";"

\* The canonical text of one token of a source over the characters chars
TokenText(token, chars) ==
    CASE token.type = "NUMBER" -> DecimalNumeral(token.value)
      [] token.type = "IDENTIFIER" -> Explode(token.value, chars)
      [] OTHER -> <<KindText(token.type)>>

\* The canonical texts of the tokens, joined with single spaces
RECURSIVE CanonicalText(_, _)
CanonicalText(tokens, chars) ==
    IF tokens = <<>> THEN <<>>
    ELSE IF Len(tokens) = 1 THEN TokenText(tokens[1], chars)
    ELSE TokenText(tokens[1], chars) \o <<" ">>
            \o CanonicalText(Tail(tokens), chars)

\* The tokens returned before the first EOF
BeforeEOF(tokens) == SelectSeq(tokens, LAMBDA t : t.type # "EOF")

\* The tokens whose value is an infinity
InfiniteNumbers(tokens) ==
    {i \in 1..Len(tokens) :
        tokens[i].type = "NUMBER" /\ IsInf(tokens[i].value)}

\* C15 (as stated): the token stream of every source round-trips through
\* its canonical text: when the lexer has tokenized the source up to EOF
\* without throwing, writing each token as its canonical text (the decimal
\* numeral of a NUMBER, the name of an IDENTIFIER, the character of an
\* operator or punctuation token), joined with single spaces, and
\* tokenizing that text gives the same token types and values.
C15_RoundTripOfEverySource ==
    (pc = "lexer" /\ Len(emitted) = calls /\ calls > 0
        /\ emitted[calls].type = "EOF") =>
        LET tokens == BeforeEOF(emitted)
            text == CanonicalText(tokens,
                                  Range(sourceCode) \cap IdentifierChars)
        IN Tokens(text) = [lexed |-> TRUE, tokens |-> tokens]

\* C15: the token stream round-trips through its canonical text when every
\* NUMBER in it is finite: when the lexer has tokenized such a source up to
\* EOF without throwing, writing each token as its canonical text (the
\* decimal numeral of a NUMBER, the name of an IDENTIFIER, the character of
\* an operator or punctuation token), joined with single spaces, and
\* tokenizing that text gives the same token types and values.  A numeral
\* that Number() turns into Infinity is written back as the word, which is
\* read as an IDENTIFIER.
C15_TokenRoundTrip ==
    /\ (pc = "lexer" /\ Len(emitted) = calls /\ calls > 0
           /\ emitted[calls].type = "EOF"
           /\ InfiniteNumbers(emitted) = {}) =>
           LET tokens == BeforeEOF(emitted)
               text == CanonicalText(tokens,
                                     Range(sourceCode) \cap IdentifierChars)
           IN Tokens(text) = [lexed |-> TRUE, tokens |-> tokens]
    /\ (pc = "lexer" /\ sourceCode = Overflowing /\ calls > 0) =>
           /\ emitted[1] = Token("NUMBER", Infinity(FALSE))
           /\ Tokens(CanonicalText(<<emitted[1]>>, {})).tokens
                  = <<Token("IDENTIFIER", "Infinity")>>

\* '01x-' is tokenized as 1, x, MINUS and written back as '1 x -'
C15_Witness ==
    /\ sourceCode = <<"0", "1", "x", "-">>
    /\ emitted = <<Token("NUMBER", Num(1)), Token("IDENTIFIER", "x"),
                   Token("MINUS", "-"), EOFToken>>
    /\ CanonicalText(BeforeEOF(emitted), {"0", "1", "x"})
          = <<"1", " ", "x", " ", "-">>
    /\ CanonicalText(BeforeEOF(emitted), {"0", "1", "x"}) # sourceCode

\* The positions of a text from i on that hold a character outside S, and
\* the position after the text
StopFrom(text, i, S) ==
    {j \in i..Len(text) : text[j] \notin S} \cup {Len(text) + 1}

\* The text starts, after white space, with a name that is followed by '='
\* at once
LeadingAssign(text) ==
    LET start == First(StopFrom(text, 1, Whitespace))
    IN /\ start <= Len(text)
       /\ text[start] \in Letters
       /\ LET after == First(StopFrom(text, start, IdentifierChars))
          IN after <= Len(text) /\ text[after] = "="

\* C16: Parser.statement parses an assignment exactly when the current
\* token is an IDENTIFIER and the source character right after that
\* identifier (the one at the lexer's cursor) is '='; otherwise, also with
\* white space before the '=', it parses an expression.  So the first
\* statement of a program is an Assignment exactly when the source starts
\* with a name directly followed by '='.
C16_AssignmentByRawCharacter ==
    /\ (pc = "program" /\ parser.currentToken.type # "EOF") =>
          LET r == statement(parser)
              raw == /\ parser.currentToken.type = "IDENTIFIER"
                     /\ parser.lexer.position + 1 <= Len(sourceCode)
                     /\ sourceCode[parser.lexer.position + 1] = "="
          IN /\ ~r.thrown => (r.node.type = "Assignment" <=> raw)
             /\ r = IF raw THEN assignment(parser) ELSE expr(parser)
    /\ Len(statements) >= 1 =>
          (statements[1].type = "Assignment" <=> LeadingAssign(sourceCode))

\* 'x =1': the name is parsed as an expression statement and the parse then
\* fails at '='
C16_Witness ==
    /\ sourceCode = <<"x", " ", "=", "1">>
    /\ pc = "returned"
    /\ statements = <<Variable("x")>>
    /\ raised = InvalidFactor
    /\ ~LeadingAssign(sourceCode)

\* The reference parser: Parser with statement deciding by two-token
\* lookahead
statementByTokens(p) ==
    IF IsAssignmentStartByTokens(p) THEN assignment(p) ELSE expr(p)

RECURSIVE programByTokens(_, _)
programByTokens(p, stmts) ==
    IF p.currentToken.type = "EOF" THEN Pushed(Parsed(p, NoNode), stmts)
    ELSE Try(pushStatement(statementByTokens(p), stmts),
             LAMBDA r : programByTokens(r.parser, r.statements))

ParseByTokens(input) ==
    Try(Pushed(Parser(Lexer(input)), <<>>),
        LAMBDA c : programByTokens(c.parser, <<>>))

\* C17: deciding by the raw character after the identifier is equivalent to
\* two-token lookahead: Parser.parse ends as the reference parser does,
\* which takes a statement for an assignment whenever its leading
\* IDENTIFIER is followed by an ASSIGN token: with the same statements, or
\* with a failure in both.
C17_SameAsTokenLookahead ==
    (pc \in {"evaluate", "returned"}) =>
        LET reference == ParseByTokens(sourceCode)
        IN IF ast # undefined
           THEN ~reference.thrown /\ reference.statements = ast.body
           ELSE reference.thrown

\* The operand tokens of a tree, from left to right
RECURSIVE Leaves(_)
Leaves(node) ==
    CASE node.type = "NumberLiteral" -> <<Token("NUMBER", node.value)>>
      [] node.type = "Variable" -> <<Token("IDENTIFIER", node.name)>>
      [] node.type = "BinaryOperation" -> Leaves(node.left) \o Leaves(node.right)
      [] node.type = "Assignment" ->
            <<Token("IDENTIFIER", node.name)>> \o Leaves(node.value)

RECURSIVE AllLeaves(_)
AllLeaves(body) ==
    IF body = <<>> THEN <<>> ELSE Leaves(body[1]) \o AllLeaves(Tail(body))

\* The interpreter and the value after the first k statements of a body
\* have been evaluated one after another, starting from a new Interpreter
RECURSIVE EvaluatedUpTo(_, _)
EvaluatedUpTo(body, k) ==
    IF k = 0 THEN Value(Interpreter, undefined)
    ELSE Try(EvaluatedUpTo(body, k - 1),
             LAMBDA before : evaluate(before.interpreter, body[k]))

\* C18: statements are listed in source order and evaluated in that order,
\* each once, against one variable map: the Program's body holds the parsed
\* statements with their operands in the order of the source's tokens; when
\* idx - 1 statements have been visited, the interpreter and the result are
\* those of evaluating the first idx - 1 statements in turn; a success
\* returns the value of the last statement after all were visited; and a
\* failure is the error of statement idx, the statements after it unvisited.
C18_StatementsInOrder ==
    (pc \in {"evaluate", "returned"} /\ ast # undefined) =>
        /\ ast.body = statements
        /\ AllLeaves(ast.body) =
              SelectSeq(Tokens(sourceCode).tokens,
                        LAMBDA t : t.type \in {"NUMBER", "IDENTIFIER"})
        /\ idx \in 1..(Len(ast.body) + 1)
        /\ LET done == EvaluatedUpTo(ast.body, idx - 1)
           IN /\ ~done.thrown
              /\ interpreter = done.interpreter
              /\ result = done.value
        /\ (pc = "returned" /\ ret.success) =>
              /\ idx = Len(ast.body) + 1
              /\ ret.result = EvaluatedUpTo(ast.body, Len(ast.body)).value
        /\ (pc = "returned" /\ ~ret.success) =>
              /\ idx <= Len(ast.body)
              /\ LET failed == evaluate(interpreter, ast.body[idx])
                 IN failed.thrown /\ raised = failed.error
              /\ ret = Catch(raised)

\* 'x=5; y=10; x + y * 2;' returns 25 after its three statements
C18_Witness ==
    /\ sourceCode = Compact1
    /\ pc = "returned"
    /\ Len(ast.body) = 3
    /\ idx = 4
    /\ interpreter.variables = [n \in {"x", "y"} |->
                                   IF n = "x" THEN Num(5) ELSE Num(10)]
    /\ ret = Success(Num(25))

\* C19: the environment starts empty and changes only when an Assignment
\* is evaluated: the Interpreter is made with no binding, parsing leaves it
\* alone, a visited Assignment binds its name to its value and leaves every
\* other binding as it was, and any other step (an expression statement,
\* a statement that throws, the return) leaves the whole map unchanged; so
\* no binding is ever removed.
C19_EnvironmentFrame ==
    [][/\ (pc = "call" /\ pc' = "program") =>
            DOMAIN interpreter'.variables = {}
       /\ pc = "program" => interpreter' = interpreter
       /\ pc = "evaluate" =>
            IF idx' = idx + 1 /\ ast.body[idx].type = "Assignment"
            THEN LET name == ast.body[idx].name
                     old == interpreter.variables
                     new == interpreter'.variables
                 IN /\ DOMAIN new = DOMAIN old \cup {name}
                    /\ \A n \in DOMAIN old \ {name} : new[n] = old[n]
                    /\ new[name] = result'
            ELSE interpreter' = interpreter]_vars

\* 'a=15 / 3; b=a * 2; b - 5;' after its two assignments
C19_Witness ==
    /\ sourceCode = Compact2
    /\ pc = "evaluate"
    /\ idx = 3
    /\ interpreter.variables = [n \in {"a", "b"} |->
                                   IF n = "a" THEN Num(5) ELSE Num(10)]

\* What a parser has left to read: the characters after the cursor, and
\* the current token unless it is EOF
Remaining(p) ==
    (Len(p.lexer.input) - p.lexer.position)
        + (IF p.currentToken.type = "EOF" THEN 0 ELSE 1)

\* Every getNextToken call on the parser's lexer keeps the cursor within
\* the input and, when it returns, has moved it forward or returns EOF;
\* every eat that returns leaves less to read.
TokensConsumed ==
    (parser # undefined /\ parser.currentToken # undefined) =>
        /\ LET g == getNextToken(parser.lexer)
           IN /\ g.lexer.position <= Len(sourceCode)
              /\ g.lexer.position >= parser.lexer.position
              /\ ~g.thrown =>
                    \/ g.lexer.position > parser.lexer.position
                    \/ g.token.type = "EOF"
        /\ LET e == eat(parser, parser.currentToken.type)
           IN (parser.currentToken.type # "EOF" /\ ~e.thrown) =>
                 Remaining(e.parser) < Remaining(parser)

\* An iteration of the loop of Parser.program that does not throw leaves
\* less to read; an iteration of the loop of visitProgram that does not
\* throw moves on by one statement.
LoopsAdvance ==
    /\ (pc = "program" /\ pc' = "program") =>
          /\ Remaining(parser') < Remaining(parser)
          /\ Remaining(parser') >= 0
    /\ (pc = "evaluate" /\ pc' = "evaluate") =>
          /\ idx' = idx + 1
          /\ idx' <= Len(ast.body) + 1

\* C20: executeCode terminates on every source: every getNextToken call
\* moves the cursor forward within the input or returns EOF, every
\* iteration of the parser's and the interpreter's loops consumes a token
\* (a statement) or throws, and so the call returns in the end.
C20_Terminates ==
    /\ []TokensConsumed
    /\ [][LoopsAdvance]_vars
    /\ <>(pc = "returned")

\* 'x=1' returned after its parse and its evaluation
C20_Witness ==
    /\ sourceCode = <<"x", "=", "1">>
    /\ pc = "returned"
    /\ parser.lexer.position = 3
    /\ idx = 2
    /\ ret = Success(Num(1))

====
